---- MODULE Spec2Model ----
(***************************************************************************)
(* State-machine model of the ChatApp component (src/src/ChatApp.tsx):     *)
(* the React state of the component, its event handlers, and the           *)
(* asynchronous retry loop of sendMessage.                                 *)
(*                                                                         *)
(* Strings are sequences of chunks (a chunk is a non-empty piece of text). *)
(* sendMessage is an async function: everything before its first await     *)
(* runs in the handler, and every later step (a fetch settling, a backoff  *)
(* timer firing) runs as its own action on the closure captured when the   *)
(* handler was called.  State setters given a value write that value;      *)
(* setters given an updater function apply it to the current state.        *)
(***************************************************************************)
EXTENDS Integers, Sequences, FiniteSets, TLC

(* ---- bounds of the model ---- *)
MaxSends == 2          \* sendMessage calls that reach the network (SpecConcurrent)
MaxSendsFull == 1      \* the same, in the specification with every handler (Spec)
MaxDocs == 1
MaxDocsMany == 2       \* attached documents where the request is what matters (SpecRequest)
MaxClock == 2
MaxErrorTimers == 1
MaxChats == 2          \* stored conversations
MaxTransient == 1      \* failed attempts per call of a "settles_early" endpoint

(* ---- program constants ---- *)
MAX_RETRIES == 5
INITIAL_BACKOFF_MS == 1000

(* ---- input alphabets ---- *)
NoText == << >>
Messages == { <<" ">>, <<"q">> }
ApiKeys == { <<" ">>, <<"k">> }
Titles == { NoText }
DocContents == { NoText, <<"X">> }
(* a response is a status and what its body holds: "message" (the assistant *)
(* message of a 2xx, the error.message of another status), "nomessage"      *)
(* (JSON without it) or "unparseable" (response.json() rejects)             *)
Responses ==
    { <<200, "message">>, <<200, "nomessage">>, <<200, "unparseable">>,
      <<401, "message">>, <<401, "unparseable">>,
      <<429, "message">>, <<429, "nomessage">>,
      <<500, "nomessage">>, <<500, "unparseable">> }
Endpoints ==
    { "any", "always_500", "429_five_times_then_200", "settles_early" }
(* endpoints whose failures alternate between a transport error and a *)
(* retryable status                                                   *)
MixedEndpoints == { "transport_then_status", "status_then_transport" }
(* endpoints that answer 2xx with a body that lacks the assistant message *)
(* (at once, after a 429 or after a rejected fetch) or that cannot be     *)
(* parsed                                                                 *)
BodyEndpoints ==
    { "200_no_message", "429_then_200_no_message",
      "rejected_then_200_no_message", "200_unparseable" }

VARIABLES
    apiKey, message, chatHistory, savedChats, currentChatId,
    currentChatTitle, isLoading, error, documents, hasSentMessage,
    isOnline, isRetrying,
    sends,          \* the sendMessage invocations that got past the preconditions
    errorTimers,    \* pending setTimeout(() => setError(null), ...) callbacks
    clock,          \* last value read from the wall clock (Date.now())
    endpoint,       \* how the completion endpoint answers (environment)
    session         \* history variable: number of the active session

vars == << apiKey, message, chatHistory, savedChats, currentChatId,
           currentChatTitle, isLoading, error, documents, hasSentMessage,
           isOnline, isRetrying, sends, errorTimers, clock, endpoint,
           session >>

(* ---- strings ---- *)
(* error is string | null; the code never sets the empty string, and the *)
(* empty sequence stands for null                                         *)
null == << >>

IsBlank(c) == c = " "

RECURSIVE TrimStart(_)
TrimStart(s) ==
    IF Len(s) > 0 /\ IsBlank(Head(s)) THEN TrimStart(Tail(s)) ELSE s

RECURSIVE TrimEnd(_)
TrimEnd(s) ==
    IF Len(s) > 0 /\ IsBlank(s[Len(s)])
    THEN TrimEnd(SubSeq(s, 1, Len(s) - 1))
    ELSE s

Trim(s) == TrimEnd(TrimStart(s))

Substring(s, n) == SubSeq(s, 1, IF Len(s) < n THEN Len(s) ELSE n)

RECURSIVE Join(_, _)
Join(parts, sep) ==
    IF Len(parts) = 0 THEN NoText
    ELSE IF Len(parts) = 1 THEN parts[1]
    ELSE parts[1] \o sep \o Join(Tail(parts), sep)

RECURSIVE Pow2(_)
Pow2(n) == IF n = 0 THEN 1 ELSE 2 * Pow2(n - 1)

(* ---- data ---- *)
ChatMessage(r, c) == [ role |-> r, content |-> c ]

DocumentItem(c) == [ content |-> Substring(c, 3000) ]

AssistantContent == <<"A">>

(* ---- saveCurrentChat (lines 108-135), as a function of the state its ---- *)
(* ---- closure reads and of the clock value t it reads.  A handler      ---- *)
(* ---- whose save would store more than MaxChats conversations is not   ---- *)
(* ---- taken.                                                           ---- *)
ChatIds(chats) == { chats[i].id : i \in 1..Len(chats) }

FilterChats(chats, id) == SelectSeq(chats, LAMBDA c : c.id # id)

FindChat(chats, id) ==
    chats[CHOOSE i \in 1..Len(chats) :
            /\ chats[i].id = id
            /\ \A j \in 1..(i - 1) : chats[j].id # id]

DefaultTitle(hist) ==
    IF Len(hist) > 0 /\ Len(hist[1].content) > 0
    THEN Substring(hist[1].content, 30) \o <<"...">>
    ELSE <<"Untitled">>

ChatToSave(hist, id, title, docs, t, sess) ==
    [ id        |-> IF id = "new" THEN ToString(t) ELSE id,
      title     |-> IF Len(title) > 0 THEN title ELSE DefaultTitle(hist),
      messages  |-> hist,
      documents |-> docs,
      timestamp |-> t,
      session   |-> sess ]   \* history field: the session the record was saved from

SavedChatsAfterSave(prevChats, hist, id, title, docs, t, sess) ==
    IF Len(hist) > 0
    THEN << ChatToSave(hist, id, title, docs, t, sess) >>
         \o (IF id # "new" THEN FilterChats(prevChats, id) ELSE prevChats)
    ELSE prevChats

ChatIdAfterSave(cur, hist, id, t) ==
    IF Len(hist) > 0 /\ id = "new" THEN ToString(t) ELSE cur

ClockAfterSave(hist, t) == IF Len(hist) > 0 THEN t ELSE clock

(* the values Date.now() can return at this moment *)
ClockReadings == clock..MaxClock

(* ---- sessions (history) ---- *)
Max(S) == CHOOSE x \in S : \A y \in S : y <= x

SessionsInUse ==
    {session} \cup { sends[i].session : i \in 1..Len(sends) }
              \cup { savedChats[i].session : i \in 1..Len(savedChats) }

(* a session that nothing refers to yet keeps its number *)
SessionUntouched ==
    /\ chatHistory = << >>
    /\ currentChatId = "new"
    /\ \A i \in 1..Len(sends) : sends[i].session # session

FreshSession ==
    IF SessionUntouched THEN session ELSE Max(SessionsInUse) + 1

(* ---- initial state ---- *)
(* the state after the first render, for an endpoint among endpoints and *)
(* the stored conversations that localStorage holds, among stored         *)
Start(endpoints, stored) ==
    /\ apiKey \in ApiKeys
    /\ message = NoText
    /\ chatHistory = << >>
    /\ savedChats \in stored
    /\ currentChatId = "new"
    /\ currentChatTitle = <<"New Chat">>
    /\ isLoading = FALSE
    /\ error = null
    /\ documents = << >>
    /\ hasSentMessage = FALSE
    /\ isOnline \in BOOLEAN
    /\ isRetrying = FALSE
    /\ sends = << >>
    /\ errorTimers = 0
    /\ clock = 1
    /\ endpoint \in endpoints
    /\ session = 1

(* a first visit: localStorage holds no conversation *)
Init == Start(Endpoints, { << >> })

(* a conversation without messages, which localStorage can hold although *)
(* saveCurrentChat never stores one (lines 32-35 take what is parsed)    *)
StoredEmpty ==
    [ id        |-> "0",
      title     |-> <<"Stored">>,
      messages  |-> << >>,
      documents |-> << >>,
      timestamp |-> 0,
      session   |-> -1 ]

StoredAtStart == { << >>, << StoredEmpty >> }

(* ---- simple handlers ---- *)
handleOnline ==
    /\ isOnline' = TRUE
    /\ UNCHANGED << apiKey, message, chatHistory, savedChats, currentChatId,
                    currentChatTitle, isLoading, error, documents,
                    hasSentMessage, isRetrying, sends, errorTimers, clock,
                    endpoint, session >>

handleOffline ==
    /\ isOnline' = FALSE
    /\ UNCHANGED << apiKey, message, chatHistory, savedChats, currentChatId,
                    currentChatTitle, isLoading, error, documents,
                    hasSentMessage, isRetrying, sends, errorTimers, clock,
                    endpoint, session >>

handleApiKeyChange ==
    \E v \in ApiKeys :
        /\ apiKey' = v
        /\ UNCHANGED << message, chatHistory, savedChats, currentChatId,
                        currentChatTitle, isLoading, error, documents,
                        hasSentMessage, isOnline, isRetrying, sends,
                        errorTimers, clock, endpoint, session >>

handleMessageChange ==
    \E v \in Messages :
        /\ message' = v
        /\ UNCHANGED << apiKey, chatHistory, savedChats, currentChatId,
                        currentChatTitle, isLoading, error, documents,
                        hasSentMessage, isOnline, isRetrying, sends,
                        errorTimers, clock, endpoint, session >>

(* the title input is rendered only when currentChatId !== "new" (line 446) *)
updateChatTitle ==
    /\ currentChatId # "new"
    /\ \E v \in Titles : currentChatTitle' = v
    /\ UNCHANGED << apiKey, message, chatHistory, savedChats, currentChatId,
                    isLoading, error, documents, hasSentMessage, isOnline,
                    isRetrying, sends, errorTimers, clock, endpoint, session >>

(* onBlur of the title input (line 455) *)
saveCurrentChat ==
    /\ currentChatId # "new"
    /\ \E t \in ClockReadings :
        /\ savedChats' = SavedChatsAfterSave(savedChats, chatHistory,
                             currentChatId, currentChatTitle, documents, t,
                             session)
        /\ currentChatId' = ChatIdAfterSave(currentChatId, chatHistory,
                                            currentChatId, t)
        /\ clock' = ClockAfterSave(chatHistory, t)
        /\ Len(savedChats') <= MaxChats
    /\ UNCHANGED << apiKey, message, chatHistory, currentChatTitle, isLoading,
                    error, documents, hasSentMessage, isOnline, isRetrying,
                    sends, errorTimers, endpoint, session >>

(* the file reader's promise settling: the updater appends to the documents *)
(* of whatever session is active then                                       *)
FileUpload(maxDocs) ==
    /\ Len(documents) < maxDocs
    /\ \E c \in DocContents : documents' = documents \o << DocumentItem(c) >>
    /\ UNCHANGED << apiKey, message, chatHistory, savedChats, currentChatId,
                    currentChatTitle, isLoading, error, hasSentMessage,
                    isOnline, isRetrying, sends, errorTimers, clock, endpoint, session >>

handleFileUpload == FileUpload(MaxDocs)

handleFileUploadMany == FileUpload(MaxDocsMany)

removeDocument ==
    /\ \E index \in 1..Len(documents) :
          documents' = SubSeq(documents, 1, index - 1)
                       \o SubSeq(documents, index + 1, Len(documents))
    /\ UNCHANGED << apiKey, message, chatHistory, savedChats, currentChatId,
                    currentChatTitle, isLoading, error, hasSentMessage,
                    isOnline, isRetrying, sends, errorTimers, clock, endpoint, session >>

(* ---- session handlers ---- *)
createNewChatKeepsDocuments ==
    /\ \E t \in ClockReadings :
        /\ savedChats' = SavedChatsAfterSave(savedChats, chatHistory,
                             currentChatId, currentChatTitle, documents, t,
                             session)
        /\ clock' = ClockAfterSave(chatHistory, t)
        /\ Len(savedChats') <= MaxChats
    /\ currentChatId' = "new"
    /\ currentChatTitle' = <<"New Chat">>
    /\ chatHistory' = << >>
    /\ hasSentMessage' = FALSE
    /\ session' = FreshSession
    /\ UNCHANGED << apiKey, message, isLoading, error, documents, isOnline,
                    isRetrying, sends, errorTimers, endpoint >>

(* lines 99-106; the setCurrentChatId("new") of line 101 comes after the *)
(* setCurrentChatId of the save and wins                                  *)
createNewChat ==
    /\ \E t \in ClockReadings :
        /\ savedChats' = SavedChatsAfterSave(savedChats, chatHistory,
                             currentChatId, currentChatTitle, documents, t,
                             session)
        /\ clock' = ClockAfterSave(chatHistory, t)
        /\ Len(savedChats') <= MaxChats
    /\ currentChatId' = "new"
    /\ currentChatTitle' = <<"New Chat">>
    /\ chatHistory' = << >>
    /\ documents' = << >>
    /\ hasSentMessage' = FALSE
    /\ session' = FreshSession
    /\ UNCHANGED << apiKey, message, isLoading, error, isOnline, isRetrying,
                    sends, errorTimers, endpoint >>

LoadedHasSentNever(messages) == FALSE

LoadedHasSentAlways(messages) == TRUE

(* line 145 *)
LoadedHasSent(messages) == Len(messages) > 0

(* the sidebar lists the stored chats, so chatId is always a stored id; *)
(* chatToLoad is looked up in the savedChats of the render the handler   *)
(* was created in, before the save's updater has run                      *)
LoadChat(chatId) ==
    LET chatToLoad == FindChat(savedChats, chatId) IN
    /\ chatId \in ChatIds(savedChats)
    /\ \E t \in ClockReadings :
        /\ savedChats' = SavedChatsAfterSave(savedChats, chatHistory,
                             currentChatId, currentChatTitle, documents,
                             t, session)
        /\ clock' = ClockAfterSave(chatHistory, t)
        /\ Len(savedChats') <= MaxChats
    /\ currentChatId' = chatToLoad.id
    /\ currentChatTitle' = chatToLoad.title
    /\ chatHistory' = chatToLoad.messages
    /\ documents' = chatToLoad.documents
    /\ hasSentMessage' = LoadedHasSent(chatToLoad.messages)
    /\ session' = chatToLoad.session
    /\ UNCHANGED << apiKey, message, isLoading, error, isOnline,
                    isRetrying, sends, errorTimers, endpoint >>

loadChat == \E chatId \in ChatIds(savedChats) : LoadChat(chatId)

DeleteChat(chatId) ==
    /\ chatId \in ChatIds(savedChats)
    /\ IF currentChatId = chatId
       THEN \* createNewChat() runs in the same handler, on the same closure
            /\ \E t \in ClockReadings :
                /\ savedChats' = SavedChatsAfterSave(
                                     FilterChats(savedChats, chatId),
                                     chatHistory, currentChatId,
                                     currentChatTitle, documents, t, session)
                /\ clock' = ClockAfterSave(chatHistory, t)
                /\ Len(savedChats') <= MaxChats
            /\ currentChatId' = "new"
            /\ currentChatTitle' = <<"New Chat">>
            /\ chatHistory' = << >>
            /\ documents' = << >>
            /\ hasSentMessage' = FALSE
            /\ session' = FreshSession
            /\ UNCHANGED << apiKey, message, isLoading, error, isOnline,
                            isRetrying, sends, errorTimers, endpoint >>
       ELSE /\ savedChats' = FilterChats(savedChats, chatId)
            /\ UNCHANGED << apiKey, message, chatHistory, currentChatId,
                            currentChatTitle, isLoading, error, documents,
                            hasSentMessage, isOnline, isRetrying, sends,
                            errorTimers, clock, endpoint, session >>

deleteChat == \E chatId \in ChatIds(savedChats) : DeleteChat(chatId)

(* ---- sendMessage: the handler up to its first await (lines 209-272) ---- *)
ErrNoMessage == <<"Please enter a message to send.">>
ErrNoDocument ==
    <<"Please upload a document or input text before sending a message.">>
ErrNoApiKey == <<"Please enter an API key first">>
ErrOffline ==
    <<"No internet connection. Please check your connection and try again.">>
ErrNoResponse == <<"No response from assistant.">>
ErrLoopExit ==
    <<"Max retries reached. Failed to get a response from the assistant.">>

DocContentsOf(docs) == [ i \in 1..Len(docs) |-> docs[i].content ]

Context(docs) == Join(DocContentsOf(docs), <<"\n\n">>)

ApiMessagesContextLast(hist, docs, msg) ==
    hist
    \o << ChatMessage("user", msg) >>
    \o (IF Len(Context(docs)) > 0
        THEN << ChatMessage("system", <<"Context:\n">> \o Context(docs)) >>
        ELSE << >>)

(* lines 236-247 *)
ApiMessages(hist, docs, msg) ==
    hist
    \o (IF Len(Context(docs)) > 0
        THEN << ChatMessage("system", <<"Context:\n">> \o Context(docs)) >>
        ELSE << >>)
    \o << ChatMessage("user", msg) >>

NewSend ==
    [ pc          |-> "Attempting",
      currentTry  |-> 0,
      delay       |-> 0,
      apiMessages |-> ApiMessages(chatHistory, documents, message),
      \* the state the closure of this call captured (read by saveCurrentChat)
      chatHistory      |-> chatHistory,
      currentChatId    |-> currentChatId,
      currentChatTitle |-> currentChatTitle,
      documents        |-> documents,
      \* history fields
      session  |-> session,
      attempts |-> 1,
      waits    |-> << >> ]

(* a call that has returned: its locals and its closure are gone *)
Returned ==
    [ pc          |-> "Done",
      currentTry  |-> 0,
      delay       |-> 0,
      apiMessages |-> << >>,
      chatHistory      |-> << >>,
      currentChatId    |-> "new",
      currentChatTitle |-> NoText,
      documents        |-> << >>,
      session  |-> 0,
      attempts |-> 0,
      waits    |-> << >> ]

InFlight(i) == i \in 1..Len(sends) /\ sends[i].pc # "Done"

RejectedSilently(msg) ==
    /\ errorTimers < MaxErrorTimers
    /\ errorTimers' = errorTimers + 1
    /\ UNCHANGED << apiKey, message, chatHistory, savedChats, currentChatId,
                    currentChatTitle, isLoading, error, documents,
                    hasSentMessage, isOnline, isRetrying, sends, clock,
                    endpoint, session >>

RejectedMarksSent(msg) ==
    /\ errorTimers < MaxErrorTimers
    /\ error' = msg
    /\ errorTimers' = errorTimers + 1
    /\ hasSentMessage' = TRUE
    /\ UNCHANGED << apiKey, message, chatHistory, savedChats, currentChatId,
                    currentChatTitle, isLoading, documents, isOnline,
                    isRetrying, sends, clock, endpoint, session >>

(* setError(...); setTimeout(() => setError(null), ...); return; *)
Rejected(msg) ==
    /\ errorTimers < MaxErrorTimers
    /\ error' = msg
    /\ errorTimers' = errorTimers + 1
    /\ UNCHANGED << apiKey, message, chatHistory, savedChats, currentChatId,
                    currentChatTitle, isLoading, documents, hasSentMessage,
                    isOnline, isRetrying, sends, clock, endpoint, session >>

HasSentGuardOff == FALSE

(* line 210: if (hasSentMessage) return; *)
HasSentGuard == hasSentMessage

SendMessage(maxSends) ==
    IF HasSentGuard THEN UNCHANGED vars
    ELSE IF Len(Trim(message)) = 0 THEN Rejected(ErrNoMessage)
    ELSE IF Len(documents) = 0 THEN Rejected(ErrNoDocument)
    ELSE IF Len(Trim(apiKey)) = 0 THEN Rejected(ErrNoApiKey)
    ELSE IF ~isOnline THEN Rejected(ErrOffline)
    ELSE /\ Len(sends) < maxSends
         /\ chatHistory' = Append(chatHistory, ChatMessage("user", message))
         /\ message' = NoText
         /\ isLoading' = TRUE
         /\ error' = null
         /\ hasSentMessage' = TRUE
         /\ isRetrying' = FALSE
         /\ sends' = Append(sends, NewSend)
         /\ UNCHANGED << apiKey, savedChats, currentChatId, currentChatTitle,
                         documents, isOnline, errorTimers, clock, endpoint, session >>

sendMessage == SendMessage(MaxSendsFull)

sendMessageConcurrent == SendMessage(MaxSends)

(* ---- sendMessage: the retry loop after an await (lines 269-371) ---- *)
IsOk(status) == status >= 200 /\ status <= 299

IsRetryableAnyError(status) == status >= 400

(* line 305 *)
IsRetryable(status) == status = 429 \/ status >= 500

DelayLinear(currentTry) == INITIAL_BACKOFF_MS * (currentTry + 1)

DelayAfterIncrement(currentTry) == INITIAL_BACKOFF_MS * Pow2(currentTry + 1)

Delay(currentTry) == INITIAL_BACKOFF_MS * Pow2(currentTry)

CanRetryOnLastTry(currentTry) == currentTry <= MAX_RETRIES

(* "currentTry < MAX_RETRIES" of lines 306 and 340 *)
CanRetry(currentTry) == currentTry < MAX_RETRIES

NextTryForgotten(currentTry) == currentTry

(* "currentTry++" of lines 319 and 351 *)
NextTry(currentTry) == currentTry + 1

RetryTail(currentTry) ==
    << ". Retrying in ", ToString(Delay(currentTry) \div 1000),
       "s... (Attempt ", ToString(currentTry + 1), "/",
       ToString(MAX_RETRIES), ")" >>

ErrApiRetry(status, body, currentTry) ==
    << "API request failed (status ", ToString(status) >>
    \o (IF body = "message" THEN <<": ", "server message">> ELSE << >>)
    \o << ")" >> \o RetryTail(currentTry)

ErrApiTailOffByOne(status, body, currentTry) ==
    << "API error: ", ToString(status), " - ",
       (CASE body = "message"     -> "server message"
          [] body = "nomessage"   -> "Unknown error"
          [] body = "unparseable" -> "Failed to parse error response."),
       ". ",
       (IF currentTry > MAX_RETRIES THEN "Max retries reached."
                                    ELSE "Non-retryable error.") >>

ErrApi(status, body, currentTry) ==
    << "API error: ", ToString(status), " - ",
       (CASE body = "message"     -> "server message"
          [] body = "nomessage"   -> "Unknown error"
          [] body = "unparseable" -> "Failed to parse error response."),
       ". ",
       (IF currentTry >= MAX_RETRIES THEN "Max retries reached."
                                     ELSE "Non-retryable error.") >>

ErrNetworkRetry(errMessage, currentTry) ==
    << "Network error: ", errMessage >> \o RetryTail(currentTry)

ErrNetwork(errMessage) ==
    << "Network error: ", errMessage, ". Max retries reached." >>

SetSend(i, s) == [ sends EXCEPT ![i] = s ]

(* the history fields count and log up to one past what the loop allows *)
CountAttempt(n) == IF n <= MAX_RETRIES + 1 THEN n + 1 ELSE n

LogWait(w, d) == IF Len(w) <= MAX_RETRIES THEN Append(w, d) ELSE w

CaughtOwnSchedule(i, errMessage) ==
    LET s == sends[i] IN
    IF CanRetry(s.currentTry)
    THEN /\ error' = ErrNetworkRetry(errMessage, s.currentTry)
         /\ isRetrying' = TRUE
         /\ sends' = SetSend(i, [ s EXCEPT !.pc = "RetryWait",
                                           !.delay = INITIAL_BACKOFF_MS ])
         /\ UNCHANGED << apiKey, message, chatHistory, savedChats,
                         currentChatId, currentChatTitle, isLoading,
                         documents, hasSentMessage, isOnline, errorTimers,
                         clock, endpoint, session >>
    ELSE /\ error' = ErrNetwork(errMessage)
         /\ isLoading' = FALSE
         /\ isRetrying' = FALSE
         /\ sends' = SetSend(i, Returned)
         /\ UNCHANGED << apiKey, message, chatHistory, savedChats,
                         currentChatId, currentChatTitle, documents,
                         hasSentMessage, isOnline, errorTimers, clock,
                         endpoint, session >>

CaughtRetriesOnLastTry(i, errMessage) ==
    LET s == sends[i] IN
    IF s.currentTry <= MAX_RETRIES
    THEN /\ error' = ErrNetworkRetry(errMessage, s.currentTry)
         /\ isRetrying' = TRUE
         /\ sends' = SetSend(i, [ s EXCEPT !.pc = "RetryWait",
                                           !.delay = Delay(s.currentTry) ])
         /\ UNCHANGED << apiKey, message, chatHistory, savedChats,
                         currentChatId, currentChatTitle, isLoading,
                         documents, hasSentMessage, isOnline, errorTimers,
                         clock, endpoint, session >>
    ELSE /\ error' = ErrNetwork(errMessage)
         /\ isLoading' = FALSE
         /\ isRetrying' = FALSE
         /\ sends' = SetSend(i, Returned)
         /\ UNCHANGED << apiKey, message, chatHistory, savedChats,
                         currentChatId, currentChatTitle, documents,
                         hasSentMessage, isOnline, errorTimers, clock,
                         endpoint, session >>

(* the catch block (lines 339-361), for a rejected fetch or a body that *)
(* response.json() cannot parse                                         *)
Caught(i, errMessage) ==
    LET s == sends[i] IN
    IF CanRetry(s.currentTry)
    THEN /\ error' = ErrNetworkRetry(errMessage, s.currentTry)
         /\ isRetrying' = TRUE
         /\ sends' = SetSend(i, [ s EXCEPT !.pc = "RetryWait",
                                           !.delay = Delay(s.currentTry) ])
         /\ UNCHANGED << apiKey, message, chatHistory, savedChats,
                         currentChatId, currentChatTitle, isLoading,
                         documents, hasSentMessage, isOnline, errorTimers,
                         clock, endpoint, session >>
    ELSE /\ error' = ErrNetwork(errMessage)
         /\ isLoading' = FALSE
         /\ isRetrying' = FALSE
         /\ sends' = SetSend(i, Returned)
         /\ UNCHANGED << apiKey, message, chatHistory, savedChats,
                         currentChatId, currentChatTitle, documents,
                         hasSentMessage, isOnline, errorTimers, clock,
                         endpoint, session >>

(* lines 290-303: saveCurrentChat is the one of the closure, so it reads *)
(* the chatHistory, currentChatId, currentChatTitle and documents of the *)
(* render in which sendMessage was called                                *)
ReplyHistoryReplaces(prev, body) ==
    IF body = "message"
    THEN << ChatMessage("assistant", AssistantContent) >>
    ELSE prev

ReplyHistoryUnguarded(prev, body) ==
    Append(prev, ChatMessage("assistant",
                    IF body = "message" THEN AssistantContent ELSE NoText))

(* line 296: setChatHistory((prev) => [...prev, assistantMessage]) *)
ReplyHistory(prev, body) ==
    IF body = "message"
    THEN Append(prev, ChatMessage("assistant", AssistantContent))
    ELSE prev

ReplyErrorSilent(prev, body) == prev

(* line 298: setError("No response from assistant.") *)
ReplyError(prev, body) ==
    IF body = "message" THEN prev ELSE ErrNoResponse

Succeeded(i, body) ==
    LET s == sends[i] IN
    /\ chatHistory' = ReplyHistory(chatHistory, body)
    /\ error' = ReplyError(error, body)
    /\ isLoading' = FALSE
    /\ isRetrying' = FALSE
    /\ \E t \in ClockReadings :
        /\ savedChats' = SavedChatsAfterSave(savedChats, s.chatHistory,
                             s.currentChatId, s.currentChatTitle,
                             s.documents, t, s.session)
        /\ currentChatId' = ChatIdAfterSave(currentChatId, s.chatHistory,
                                            s.currentChatId, t)
        /\ clock' = ClockAfterSave(s.chatHistory, t)
        /\ Len(savedChats') <= MaxChats
    /\ sends' = SetSend(i, Returned)
    /\ UNCHANGED << apiKey, message, currentChatTitle, documents,
                    hasSentMessage, isOnline, errorTimers, endpoint, session >>

(* lines 304-319 *)
RetryStatus(i, status, body) ==
    LET s == sends[i] IN
    /\ error' = ErrApiRetry(status, body, s.currentTry)
    /\ isRetrying' = TRUE
    /\ sends' = SetSend(i, [ s EXCEPT !.pc = "RetryWait",
                                      !.delay = Delay(s.currentTry) ])
    /\ UNCHANGED << apiKey, message, chatHistory, savedChats, currentChatId,
                    currentChatTitle, isLoading, documents, hasSentMessage,
                    isOnline, errorTimers, clock, endpoint, session >>

(* lines 320-338 *)
FailedStatusKeepsLoading(i, status, body) ==
    LET s == sends[i] IN
    /\ error' = ErrApi(status, body, s.currentTry)
    /\ isRetrying' = FALSE
    /\ sends' = SetSend(i, Returned)
    /\ UNCHANGED << apiKey, message, chatHistory, savedChats, currentChatId,
                    currentChatTitle, isLoading, documents, hasSentMessage,
                    isOnline, errorTimers, clock, endpoint, session >>

FailedStatus(i, status, body) ==
    LET s == sends[i] IN
    /\ error' = ErrApi(status, body, s.currentTry)
    /\ isLoading' = FALSE
    /\ isRetrying' = FALSE
    /\ sends' = SetSend(i, Returned)
    /\ UNCHANGED << apiKey, message, chatHistory, savedChats, currentChatId,
                    currentChatTitle, documents, hasSentMessage, isOnline,
                    errorTimers, clock, endpoint, session >>

(* what the endpoint may answer to the attempt-th fetch of a call: anything, *)
(* the answers of one of the scripted scenarios, or anything but a          *)
(* retryable failure once MaxTransient attempts have failed                 *)
Answers(attempt, status, body) ==
    CASE endpoint = "any" -> TRUE
      [] endpoint = "always_500" -> status = "500"
      [] endpoint = "429_five_times_then_200" ->
            IF attempt <= 5 THEN status = "429"
            ELSE status = "200" /\ body = "message"
      [] endpoint = "settles_early" ->
            \/ attempt <= MaxTransient
            \/ status = "401"
            \/ status = "200" /\ body # "unparseable"
      [] endpoint = "transport_then_status" ->
            IF attempt % 2 = 1 THEN status = "rejected"
            ELSE status \in { "429", "500" }
      [] endpoint = "status_then_transport" ->
            IF attempt % 2 = 1 THEN status \in { "429", "500" }
            ELSE status = "rejected"
      [] endpoint = "200_no_message" ->
            status = "200" /\ body = "nomessage"
      [] endpoint = "429_then_200_no_message" ->
            IF attempt = 1 THEN status = "429"
            ELSE status = "200" /\ body = "nomessage"
      [] endpoint = "rejected_then_200_no_message" ->
            IF attempt = 1 THEN status = "rejected"
            ELSE status = "200" /\ body = "nomessage"
      [] endpoint = "200_unparseable" ->
            status = "200" /\ body = "unparseable"

(* the fetch of send i is rejected (transport error) *)
fetchRejects(i) ==
    /\ i \in 1..Len(sends)
    /\ sends[i].pc = "Attempting"
    /\ Answers(sends[i].attempts, "rejected", "unparseable")
    /\ Caught(i, "Failed to fetch")

fetchResolvesEmptyOnParseError(i) ==
    /\ i \in 1..Len(sends)
    /\ sends[i].pc = "Attempting"
    /\ \E r \in Responses :
        LET status == r[1]
            body == r[2]
        IN
        /\ Answers(sends[i].attempts, ToString(status), body)
        /\ IF IsOk(status)
           THEN IF body = "unparseable"
                THEN Succeeded(i, "nomessage")
                ELSE Succeeded(i, body)
           ELSE IF IsRetryable(status) /\ CanRetry(sends[i].currentTry)
                THEN RetryStatus(i, status, body)
                ELSE FailedStatus(i, status, body)

(* the fetch of send i resolves with a response, and its body is read *)
fetchResolves(i) ==
    /\ i \in 1..Len(sends)
    /\ sends[i].pc = "Attempting"
    /\ \E r \in Responses :
        LET status == r[1]
            body == r[2]
        IN
        /\ Answers(sends[i].attempts, ToString(status), body)
        /\ IF IsOk(status)
           THEN IF body = "unparseable"
                THEN Caught(i, "Unexpected end of JSON input")
                ELSE Succeeded(i, body)
           ELSE IF IsRetryable(status) /\ CanRetry(sends[i].currentTry)
                THEN RetryStatus(i, status, body)
                ELSE FailedStatus(i, status, body)

backoffElapsesChecksOnline(i) ==
    /\ i \in 1..Len(sends)
    /\ sends[i].pc = "RetryWait"
    /\ LET s == sends[i]
           n == NextTry(s.currentTry)
           w == LogWait(s.waits, s.delay)
       IN IF n <= MAX_RETRIES /\ isOnline
          THEN /\ sends' = SetSend(i, [ s EXCEPT !.pc = "Attempting",
                               !.currentTry = n, !.delay = 0, !.waits = w,
                               !.attempts = CountAttempt(s.attempts) ])
               /\ UNCHANGED << isLoading, isRetrying, error >>
          ELSE /\ sends' = SetSend(i, Returned)
               /\ isLoading' = FALSE
               /\ isRetrying' = FALSE
               /\ error' = IF n > MAX_RETRIES THEN ErrLoopExit ELSE ErrOffline
    /\ UNCHANGED << apiKey, message, chatHistory, savedChats, currentChatId,
                    currentChatTitle, documents, hasSentMessage, isOnline,
                    errorTimers, clock, endpoint, session >>

(* the backoff timer of send i fires: currentTry++ and the loop test *)
backoffElapses(i) ==
    /\ i \in 1..Len(sends)
    /\ sends[i].pc = "RetryWait"
    /\ LET s == sends[i]
           n == NextTry(s.currentTry)
           w == LogWait(s.waits, s.delay)
       IN IF n <= MAX_RETRIES
          THEN /\ sends' = SetSend(i, [ s EXCEPT !.pc = "Attempting",
                               !.currentTry = n, !.delay = 0, !.waits = w,
                               !.attempts = CountAttempt(s.attempts) ])
               /\ UNCHANGED << isLoading, isRetrying, error >>
          ELSE /\ sends' = SetSend(i, Returned)
               /\ isLoading' = FALSE
               /\ isRetrying' = FALSE
               /\ error' = IF n > MAX_RETRIES THEN ErrLoopExit ELSE error
    /\ UNCHANGED << apiKey, message, chatHistory, savedChats, currentChatId,
                    currentChatTitle, documents, hasSentMessage, isOnline,
                    errorTimers, clock, endpoint, session >>

(* a setTimeout(() => setError(null), ...) armed by a rejected call fires *)
errorTimerFires ==
    /\ errorTimers > 0
    /\ error' = null
    /\ errorTimers' = errorTimers - 1
    /\ UNCHANGED << apiKey, message, chatHistory, savedChats, currentChatId,
                    currentChatTitle, isLoading, documents, hasSentMessage,
                    isOnline, isRetrying, sends, clock, endpoint, session >>

(* ---- specifications ---- *)

(* the input, validation, retry and session handlers; one call of *)
(* sendMessage reaches the network                                 *)
Next ==
    \/ handleOnline
    \/ handleOffline
    \/ handleApiKeyChange
    \/ handleMessageChange
    \/ handleFileUpload
    \/ removeDocument
    \/ createNewChat
    \/ loadChat
    \/ deleteChat
    \/ sendMessage
    \/ \E i \in 1..MaxSendsFull : fetchRejects(i)
    \/ \E i \in 1..MaxSendsFull : fetchResolves(i)
    \/ \E i \in 1..MaxSendsFull : backoffElapses(i)
    \/ errorTimerFires

Spec == Init /\ [][Next]_vars

(* a user who is online with a stored key, and an endpoint that answers *)
(* freely                                                               *)
InitReady ==
    /\ Init
    /\ apiKey = <<"k">>
    /\ isOnline = TRUE
    /\ endpoint = "any"

InitConcurrent ==
    /\ Init
    /\ apiKey = <<"k">>
    /\ isOnline = TRUE
    /\ endpoint = "settles_early"

(* the Conversation Store: every handler that saves, loads or deletes, *)
(* and the title input                                                 *)
NextStore ==
    \/ handleMessageChange
    \/ handleFileUpload
    \/ removeDocument
    \/ updateChatTitle
    \/ saveCurrentChat
    \/ deleteChat
    \/ loadChat
    \/ createNewChat
    \/ sendMessage
    \/ \E i \in 1..MaxSendsFull : fetchRejects(i)
    \/ \E i \in 1..MaxSendsFull : fetchResolves(i)
    \/ \E i \in 1..MaxSendsFull : backoffElapses(i)
    \/ errorTimerFires

SpecStore == InitReady /\ [][NextStore]_vars

(* overlapping calls of sendMessage *)
NextConcurrent ==
    \/ handleMessageChange
    \/ handleFileUpload
    \/ createNewChat
    \/ loadChat
    \/ deleteChat
    \/ sendMessageConcurrent
    \/ \E i \in 1..MaxSends : fetchRejects(i)
    \/ \E i \in 1..MaxSends : fetchResolves(i)
    \/ \E i \in 1..MaxSends : backoffElapses(i)
    \/ errorTimerFires

SpecConcurrent == InitConcurrent /\ [][NextConcurrent]_vars

(* one call of sendMessage, the session handlers, and the scheduling the *)
(* runtime gives: a pending fetch settles, a pending timer fires         *)
NextLive ==
    \/ handleMessageChange
    \/ handleFileUpload
    \/ createNewChat
    \/ loadChat
    \/ deleteChat
    \/ sendMessage
    \/ \E i \in 1..MaxSendsFull : fetchRejects(i)
    \/ \E i \in 1..MaxSendsFull : fetchResolves(i)
    \/ \E i \in 1..MaxSendsFull : backoffElapses(i)
    \/ errorTimerFires

Fairness ==
    \A i \in 1..MaxSendsFull :
        /\ WF_vars(fetchRejects(i) \/ fetchResolves(i))
        /\ WF_vars(backoffElapses(i))

SpecLive == InitReady /\ [][NextLive]_vars /\ Fairness

(* the request: up to MaxDocsMany attached documents, one call *)
NextRequest ==
    \/ handleMessageChange
    \/ handleFileUploadMany
    \/ removeDocument
    \/ createNewChat
    \/ loadChat
    \/ sendMessage
    \/ \E i \in 1..MaxSendsFull : fetchRejects(i)
    \/ \E i \in 1..MaxSendsFull : fetchResolves(i)
    \/ \E i \in 1..MaxSendsFull : backoffElapses(i)
    \/ errorTimerFires

SpecRequest == InitConcurrent /\ [][NextRequest]_vars

(* a later visit: localStorage may hold a conversation *)
InitRestore ==
    /\ Start({ "settles_early" }, StoredAtStart)
    /\ apiKey = <<"k">>
    /\ isOnline = TRUE

SpecRestore == InitRestore /\ [][NextLive]_vars

(* the retry loop against an endpoint that answers 2xx with a body that *)
(* holds no assistant message                                           *)
InitBody ==
    /\ Start(BodyEndpoints, { << >> })
    /\ apiKey = <<"k">>
    /\ isOnline = TRUE

SpecBody == InitBody /\ [][NextLive]_vars

(* the retry loop against an endpoint that answers freely or whose *)
(* failures alternate in kind                                      *)
InitRetry ==
    /\ Start(MixedEndpoints \cup { "any" }, { << >> })
    /\ apiKey = <<"k">>
    /\ isOnline = TRUE

SpecRetry == InitRetry /\ [][NextLive]_vars

(* ---- properties ---- *)

(* the step ends call i of sendMessage *)
Returns(i) ==
    /\ i \in 1..Len(sends)
    /\ sends[i].pc # "Done"
    /\ sends'[i].pc = "Done"

(* the step is taken by call i *)
Acts(i) == i \in 1..Len(sends) /\ sends'[i] # sends[i]

LastOf(seq) == seq[Len(seq)]

SaysMaxRetries(e) ==
    /\ Len(e) > 0
    /\ LastOf(e) \in { "Max retries reached.", ". Max retries reached." }

AssistantMessage == ChatMessage("assistant", AssistantContent)

RECURSIVE Sum(_)
Sum(seq) == IF Len(seq) = 0 THEN 0 ELSE Head(seq) + Sum(Tail(seq))

(* C1: a call of sendMessage makes at most 6 network attempts, and the    *)
(* result of its 6th attempt ends the call: with a reply, or, for a 429,  *)
(* a 5xx or a transport error, with a max-retries error; it never waits   *)
(* for a 7th attempt.                                                     *)
C1_AtMostSixAttempts ==
    [][ \A i \in 1..Len(sends') :
          /\ sends'[i].attempts <= 6
          /\ (Acts(i) /\ sends[i].attempts = 6) =>
                /\ sends'[i].pc = "Done"
                /\ \/ chatHistory' = Append(chatHistory, AssistantMessage)
                   \/ error' = ErrNoResponse
                   \/ SaysMaxRetries(error') ]_vars

C1_Witness ==
    /\ Len(sends) = 1
    /\ sends[1] = Returned
    /\ error = ErrNetwork("Failed to fetch")

(* C2: while hasSentMessage is true it stays true as long as the active   *)
(* session stays the same (no createNewChat, no loadChat of another       *)
(* conversation), whatever a call returns with; no step taken while it is *)
(* true starts a call that reaches the network, and a sendMessage step    *)
(* taken while it is true changes nothing.                                *)
C2_SentFlagStays ==
    [][ hasSentMessage =>
          /\ (session' = session => hasSentMessage')
          /\ Len(sends') = Len(sends)
          /\ (sendMessageConcurrent => UNCHANGED vars) ]_vars

C2_Witness ==
    /\ hasSentMessage
    /\ Len(sends) > 0
    /\ sends[1] = Returned
    /\ error = ErrApi(401, "message", 1)
    /\ chatHistory = << ChatMessage("user", <<"q">>) >>

(* C3: no two calls of sendMessage issued from the same session are in *)
(* flight at the same time.                                            *)
C3_OneSendPerSession ==
    \A i, j \in 1..Len(sends) :
        (i # j /\ InFlight(i) /\ InFlight(j)) =>
            sends[i].session # sends[j].session

C3_Witness ==
    /\ Len(sends) = 2
    /\ InFlight(1)
    /\ InFlight(2)
    /\ sends[1].pc = "RetryWait"
    /\ Len(savedChats) > 0

(* C4: every call of sendMessage that passed the preconditions eventually *)
(* returns, whatever the user does meanwhile, provided a pending fetch    *)
(* eventually settles and a pending backoff timer eventually fires.       *)
C4_SendTerminates ==
    \A i \in 1..MaxSendsFull :
        (Len(sends) >= i) ~> (Len(sends) >= i /\ sends[i].pc = "Done")

C4_Witness ==
    /\ Len(sends) = 1
    /\ sends[1] = Returned
    /\ session # 1
    /\ ~isLoading

(* C5: the step in which a call of sendMessage returns leaves isLoading *)
(* false and isRetrying false.                                          *)
C5_IndicatorsCleared ==
    [][ (\E i \in 1..Len(sends) : Returns(i)) =>
            (isLoading' = FALSE /\ isRetrying' = FALSE) ]_vars

C5_Witness ==
    /\ Len(sends) = 1
    /\ sends[1] = Returned
    /\ ~isLoading
    /\ ~isRetrying
    /\ error = ErrApi(401, "message", 0)

(* C6: the step in which a call of sendMessage returns either appends an *)
(* assistant message to the transcript, or leaves the transcript as it   *)
(* is and leaves an error string set.                                    *)
C6_MessageOrError ==
    [][ (\E i \in 1..Len(sends) : Returns(i)) =>
            \/ chatHistory' = Append(chatHistory, AssistantMessage)
            \/ (chatHistory' = chatHistory /\ error' # null) ]_vars

C6_Witness ==
    /\ Len(sends) = 1
    /\ sends[1] = Returned
    /\ error = ErrNoResponse
    /\ chatHistory = << ChatMessage("user", <<"q">>) >>

(* C7: when the first attempt of a call issued from a fresh session       *)
(* (empty transcript) gets a 2xx with an assistant message, no other call *)
(* was made and the session is still the active one, the transcript is    *)
(* then exactly the user message followed by the assistant message, and   *)
(* hasSentMessage is true.                                                *)
C7_FirstAttemptSuccess ==
    [][ \A i \in 1..Len(sends) :
          ( /\ Returns(i)
            /\ Len(sends) = 1
            /\ sends[i].attempts = 1
            /\ sends[i].chatHistory = << >>
            /\ sends[i].session = session
            /\ chatHistory' # chatHistory ) =>
              /\ chatHistory' = << LastOf(sends[i].apiMessages),
                                   AssistantMessage >>
              /\ LastOf(sends[i].apiMessages).role = "user"
              /\ hasSentMessage' ]_vars

C7_Witness ==
    /\ Len(sends) = 1
    /\ sends[1] = Returned
    /\ session = 1
    /\ chatHistory = << ChatMessage("user", <<"q">>), AssistantMessage >>
    /\ hasSentMessage
    /\ error = null

(* C8: the step in which a call returns with an assistant message leaves *)
(* in savedChats a record whose messages are the transcript, which ends  *)
(* with the user message and the assistant message.                      *)
C8_SavedOnSuccess ==
    [][ \A i \in 1..Len(sends) :
          ( /\ Returns(i)
            /\ sends[i].session = session
            /\ chatHistory' = Append(chatHistory, AssistantMessage) ) =>
              \E k \in 1..Len(savedChats') :
                  /\ savedChats'[k].messages = chatHistory'
                  /\ savedChats'[k].session = session ]_vars

(* C9: with an endpoint that answers every attempt with a 5xx, a call     *)
(* returns after its 6th attempt with an error that says that max retries *)
(* were reached; the transcript has no assistant message (it is the user  *)
(* message alone if the session is still the active one) and the step     *)
(* writes nothing to savedChats.                                          *)
C9_SixTimes5xx ==
    [][ \A i \in 1..Len(sends) :
          (endpoint = "always_500" /\ Returns(i)) =>
              /\ sends[i].attempts = 6
              /\ SaysMaxRetries(error')
              /\ error'[2] = "500"
              /\ chatHistory' = chatHistory
              /\ \A k \in 1..Len(chatHistory') :
                     chatHistory'[k].role # "assistant"
              /\ (sends[i].session = session =>
                     chatHistory' = << LastOf(sends[i].apiMessages) >>)
              /\ savedChats' = savedChats ]_vars

C9_Witness ==
    /\ endpoint = "always_500"
    /\ Len(sends) = 1
    /\ sends[1] = Returned
    /\ error = ErrApi(500, "nomessage", 5)
    /\ ~isLoading

(* C10: with an endpoint that answers 429 to attempts 1 to 5 and 2xx with *)
(* an assistant message to attempt 6, the call returns by appending the   *)
(* assistant message, after backoff waits of 1 s, 2 s, 4 s, 8 s and 16 s  *)
(* in that order, 31 s in total.                                          *)
C10_FiveTimes429 ==
    [][ \A i \in 1..Len(sends) :
          (endpoint = "429_five_times_then_200" /\ Returns(i)) =>
              /\ sends[i].attempts = 6
              /\ sends[i].waits = << 1000, 2000, 4000, 8000, 16000 >>
              /\ Sum(sends[i].waits) = 31000
              /\ chatHistory' = Append(chatHistory, AssistantMessage) ]_vars

C10_Witness ==
    /\ endpoint = "429_five_times_then_200"
    /\ Len(sends) = 1
    /\ sends[1] = Returned
    /\ Len(chatHistory) > 0
    /\ LastOf(chatHistory) = AssistantMessage

(* the waits the spec lists, in milliseconds *)
BackoffSchedule == << 1000, 2000, 4000, 8000, 16000, 32000 >>

(* the step is an attempt of call i that fails in a way the loop retries: *)
(* a thrown error, a 429 or a 5xx                                        *)
FailsRetryably(i) ==
    /\ Acts(i)
    /\ sends[i].pc = "Attempting"
    /\ chatHistory' = chatHistory
    /\ Len(error') > 1
    /\ \/ error'[1] = "Network error: "
       \/ error'[2] \in { "429", "500" }

(* C11, as stated: for every n in 0..5, an attempt that fails retryably   *)
(* with the counter at n is followed by a backoff wait of 1000 * 2^n ms,  *)
(* so that the waits are 1 s, 2 s, 4 s, 8 s, 16 s and 32 s.               *)
C11_WaitBeforeEveryRetry ==
    [][ \A i \in 1..Len(sends) :
          (FailsRetryably(i) /\ sends[i].currentTry \in 0..5) =>
              /\ sends'[i].pc = "RetryWait"
              /\ sends'[i].delay = BackoffSchedule[sends[i].currentTry + 1]
      ]_vars

(* C11, amended: for every n in 0..4, an attempt that fails retryably with *)
(* the counter at n, by a status or by a thrown error alike, is followed   *)
(* by a backoff wait of 1000 * 2^n ms; with the counter at 5 the call      *)
(* returns without waiting, so that the waits of a call are the first of   *)
(* 1 s, 2 s, 4 s, 8 s, 16 s and there is no wait of 32 s.                  *)
C11_BackoffSchedule ==
    [][ \A i \in 1..Len(sends') :
          /\ Len(sends'[i].waits) <= 5
          /\ sends'[i].waits =
                 SubSeq(BackoffSchedule, 1, Len(sends'[i].waits))
          /\ sends'[i].delay \in { 0, 1000, 2000, 4000, 8000, 16000 }
          /\ (i <= Len(sends) /\ FailsRetryably(i)) =>
                IF sends[i].currentTry < 5
                THEN /\ sends'[i].pc = "RetryWait"
                     /\ sends'[i].delay =
                            BackoffSchedule[sends[i].currentTry + 1]
                ELSE sends'[i].pc = "Done" ]_vars

C11_Witness ==
    /\ Len(sends) = 1
    /\ sends[1].pc = "RetryWait"
    /\ sends[1].currentTry = 4
    /\ sends[1].delay = 16000
    /\ sends[1].waits = << 1000, 2000, 4000, 8000 >>
    /\ error = ErrApiRetry(429, "message", 4)

(* C12: an attempt, the first or a later one, answered with a status that *)
(* is not 2xx, not 429 and below 500 ends the call in that step with the  *)
(* fatal error: the call does not wait, makes no further attempt, and the *)
(* error says that the failure is not retryable when retries remain; a    *)
(* call that has returned never acts again.                               *)
C12_FatalStatusEndsSend ==
    [][ \A i \in 1..Len(sends) :
          /\ ( /\ Acts(i)
               /\ sends[i].pc = "Attempting"
               /\ chatHistory' = chatHistory
               /\ Len(error') > 1
               /\ error'[2] = "401" ) =>
                  /\ sends'[i] = Returned
                  /\ error'[1] = "API error: "
                  /\ isLoading' = FALSE
                  /\ isRetrying' = FALSE
                  /\ (sends[i].currentTry < MAX_RETRIES =>
                          LastOf(error') = "Non-retryable error.")
          /\ (sends[i].pc = "Done" => sends'[i].pc = "Done") ]_vars

C12_Witness ==
    /\ Len(sends) = 1
    /\ sends[1] = Returned
    /\ error = ErrApi(401, "unparseable", 0)
    /\ ~isLoading
    /\ ~isRetrying

(* C13: thrown errors and retryable statuses count on one counter: the    *)
(* k-th retry of a call waits 1000 * 2^(k-1) ms whatever the kinds of the *)
(* k failures before it, every attempt but the 6th that fails retryably   *)
(* is retried, and the 6th ends the call with a max-retries error; with   *)
(* an endpoint whose failures alternate in kind the call returns on its   *)
(* 6th attempt, after waits of 1 s, 2 s, 4 s, 8 s and 16 s.               *)
C13_SharedCounter ==
    [][ \A i \in 1..Len(sends) :
          /\ sends[i].pc # "Done" =>
                /\ sends[i].attempts = Len(sends[i].waits) + 1
                /\ sends[i].attempts = sends[i].currentTry + 1
          /\ FailsRetryably(i) =>
                IF sends[i].attempts < 6
                THEN /\ sends'[i].pc = "RetryWait"
                     /\ sends'[i].delay =
                            1000 * Pow2(Len(sends[i].waits))
                ELSE /\ sends'[i].pc = "Done"
                     /\ SaysMaxRetries(error')
          /\ (endpoint \in MixedEndpoints /\ Returns(i)) =>
                /\ sends[i].attempts = 6
                /\ sends[i].waits = << 1000, 2000, 4000, 8000, 16000 >>
                /\ SaysMaxRetries(error')
                /\ error'[1] = IF endpoint = "transport_then_status"
                               THEN "API error: " ELSE "Network error: "
      ]_vars

C13_Witness ==
    /\ endpoint = "transport_then_status"
    /\ Len(sends) = 1
    /\ sends[1].pc = "RetryWait"
    /\ sends[1].attempts = 5
    /\ sends[1].waits = << 1000, 2000, 4000, 8000 >>
    /\ sends[1].delay = 16000
    /\ error = ErrNetworkRetry("Failed to fetch", 4)

(* one of the four conditions that sendMessage validates does not hold *)
PreconditionFails ==
    \/ Len(Trim(message)) = 0
    \/ Len(documents) = 0
    \/ Len(Trim(apiKey)) = 0
    \/ ~isOnline

(* C14, as stated: no call of sendMessage made while a precondition fails *)
(* reaches the network, changes the transcript, or returns with no error  *)
(* set.                                                                   *)
C14_EveryFailureShowsError ==
    ~ ENABLED ( /\ sendMessage
                /\ PreconditionFails
                /\ \/ sends' # sends
                   \/ chatHistory' # chatHistory
                   \/ error' = null )

(* C14, amended: a call of sendMessage made while hasSentMessage is false *)
(* and a precondition fails makes no network call, leaves the transcript  *)
(* and the stored conversations unchanged, and sets the error message of  *)
(* the first precondition that fails (a call made while hasSentMessage is *)
(* true returns before any precondition is looked at and sets no error).  *)
C14_RejectedBeforeNetwork ==
    [][ (sendMessage /\ ~hasSentMessage /\ PreconditionFails) =>
          /\ sends' = sends
          /\ chatHistory' = chatHistory
          /\ savedChats' = savedChats
          /\ isLoading' = isLoading
          /\ hasSentMessage' = FALSE
          /\ error' # null
          /\ error' =
               IF Len(Trim(message)) = 0
               THEN <<"Please enter a message to send.">>
               ELSE IF Len(documents) = 0
               THEN <<"Please upload a document or input text before sending a message.">>
               ELSE IF Len(Trim(apiKey)) = 0
               THEN <<"Please enter an API key first">>
               ELSE <<"No internet connection. Please check your connection and try again.">>
      ]_vars

C14_Witness ==
    /\ error = ErrOffline
    /\ ~isOnline
    /\ errorTimers = 1
    /\ sends = << >>
    /\ chatHistory = << >>
    /\ ~hasSentMessage
    /\ message = <<"q">>
    /\ Len(documents) = 1
    /\ apiKey = <<"k">>

Roles(msgs) == { msgs[k].role : k \in 1..Len(msgs) }

(* C15: the message list of a call is the transcript of the moment of the *)
(* call, then at most one system message, then the user message, in that  *)
(* order; the step that starts the call appends the user message alone to *)
(* the transcript, and neither the transcript nor the messages of a       *)
(* stored conversation ever hold a system message.                        *)
C15_RequestOrder ==
    [][ /\ \A i \in 1..Len(sends') :
            sends'[i].pc # "Done" =>
              LET api == sends'[i].apiMessages
                  n == Len(sends'[i].chatHistory)
              IN /\ Len(api) \in { n + 1, n + 2 }
                 /\ SubSeq(api, 1, n) = sends'[i].chatHistory
                 /\ LastOf(api).role = "user"
                 /\ Len(api) = n + 2 => api[n + 1].role = "system"
        /\ Len(sends') > Len(sends) =>
              /\ chatHistory' = Append(chatHistory,
                                       LastOf(LastOf(sends').apiMessages))
              /\ LastOf(chatHistory').content = message
        /\ "system" \notin Roles(chatHistory')
        /\ \A k \in 1..Len(savedChats') :
              "system" \notin Roles(savedChats'[k].messages) ]_vars

C15_Witness ==
    /\ Len(sends) = 2
    /\ InFlight(2)
    /\ sends[2].chatHistory = << AssistantMessage >>
    /\ sends[2].apiMessages =
          << AssistantMessage,
             ChatMessage("system", << "Context:\n", "X" >>),
             ChatMessage("user", <<"q">>) >>
    /\ chatHistory = << AssistantMessage, ChatMessage("user", <<"q">>) >>
    /\ Len(savedChats) > 0

(* C16: the message list of a call holds a system message if and only if *)
(* one of the documents attached at the moment of the call has non-empty *)
(* content.                                                              *)
C16_ContextIffContent ==
    \A i \in 1..Len(sends) :
        sends[i].pc # "Done" =>
            ( "system" \in Roles(sends[i].apiMessages)
              <=> \E d \in 1..Len(sends[i].documents) :
                      Len(sends[i].documents[d].content) > 0 )

UniqueIds(chats) ==
    \A j, k \in 1..Len(chats) : j # k => chats[j].id # chats[k].id

(* C17: in every reachable state no two stored conversations have the *)
(* same id.                                                           *)
C17_OneRecordPerId == UniqueIds(savedChats)

(* C18: the step of deleteChat(id), for any stored id, leaves no stored *)
(* conversation with that id.                                           *)
C18_DeletedIsGone ==
    [][ \A id \in ChatIds(savedChats) :
          DeleteChat(id) => id \notin ChatIds(savedChats') ]_vars

(* C19: the step of loadChat(id), for any stored id, makes the transcript *)
(* the stored one and sets hasSentMessage to false when that transcript   *)
(* has length 0 and to true when it has length > 0.                       *)
C19_LoadedSentFlag ==
    [][ \A id \in ChatIds(savedChats) :
          LoadChat(id) =>
              /\ chatHistory' = FindChat(savedChats, id).messages
              /\ Len(chatHistory') = 0 => hasSentMessage' = FALSE
              /\ Len(chatHistory') > 0 => hasSentMessage' = TRUE ]_vars

C19_Witness ==
    /\ currentChatId = StoredEmpty.id
    /\ chatHistory = << >>
    /\ hasSentMessage = FALSE
    /\ Len(savedChats) = 2
    /\ savedChats[1].messages # << >>

(* C20: after the step of loadChat(id), for any stored id, the id, the   *)
(* title, the transcript and the documents of the session are those of   *)
(* the conversation that the store then holds under id (stated for a     *)
(* store that holds one conversation per id).                            *)
C20_LoadedIsStored ==
    [][ \A id \in ChatIds(savedChats) :
          (LoadChat(id) /\ UniqueIds(savedChats) /\ UniqueIds(savedChats')) =>
              /\ id \in ChatIds(savedChats')
              /\ currentChatId' = FindChat(savedChats', id).id
              /\ currentChatTitle' = FindChat(savedChats', id).title
              /\ chatHistory' = FindChat(savedChats', id).messages
              /\ documents' = FindChat(savedChats', id).documents ]_vars

(* C21: the step of createNewChat stores the session it leaves when the   *)
(* transcript of that session is non-empty (the record put first in       *)
(* savedChats holds its transcript and documents, under its id if it has  *)
(* one) and leaves savedChats as it is when the transcript is empty; it   *)
(* leaves currentChatId = "new", an empty transcript, no documents and    *)
(* hasSentMessage = false.                                                *)
C21_CreateSavesAndResets ==
    [][ createNewChat =>
          /\ currentChatId' = "new"
          /\ chatHistory' = << >>
          /\ documents' = << >>
          /\ hasSentMessage' = FALSE
          /\ Len(chatHistory) = 0 => savedChats' = savedChats
          /\ Len(chatHistory) > 0 =>
                /\ Len(savedChats') > 0
                /\ savedChats'[1].messages = chatHistory
                /\ savedChats'[1].documents = documents
                /\ currentChatId # "new" =>
                      /\ savedChats'[1].id = currentChatId
                      /\ Tail(savedChats') =
                             FilterChats(savedChats, currentChatId)
                /\ currentChatId = "new" =>
                      Tail(savedChats') = savedChats ]_vars

C21_Witness ==
    /\ currentChatId = "new"
    /\ chatHistory = << >>
    /\ documents = << >>
    /\ hasSentMessage = FALSE
    /\ session = 2
    /\ Len(savedChats) > 0
    /\ savedChats[1].session = 1
    /\ savedChats[1].messages = << ChatMessage("user", <<"q">>) >>
    /\ Len(savedChats[1].documents) = 1

(* C22: the stored conversations saved from one session all have the same *)
(* id: no save of a session mints a second id for it.                     *)
C22_StableId ==
    \A j, k \in 1..Len(savedChats) :
        savedChats[j].session = savedChats[k].session =>
            savedChats[j].id = savedChats[k].id

(* C23: every stored conversation with a non-empty transcript holds the *)
(* user message and the assistant reply of a completed exchange.        *)
C23_StoredAreCompleted ==
    \A k \in 1..Len(savedChats) :
        Len(savedChats[k].messages) > 0 =>
            { "user", "assistant" } \subseteq Roles(savedChats[k].messages)

CountRole(msgs, r) == Cardinality({ k \in 1..Len(msgs) : msgs[k].role = r })

(* C24: in every reachable state the transcript of the active session *)
(* holds at most one user message and at most one assistant message.  *)
C24_OneExchange ==
    /\ CountRole(chatHistory, "user") <= 1
    /\ CountRole(chatHistory, "assistant") <= 1

(* the error string of a call that ended in a fatal or exhausted error *)
TerminalError(e) ==
    /\ Len(e) > 1
    /\ \/ e[1] = "API error: "
       \/ e[1] = "Network error: " /\ SaysMaxRetries(e)

(* C25: an auto-clear timer that fires while the error of a call that   *)
(* ended in a fatal or exhausted error is set leaves that error set.    *)
C25_TerminalErrorStays ==
    [][ (TerminalError(error) /\ errorTimerFires) => error' = error ]_vars

(* C28: the step in which a call returns while the session that issued *)
(* it is not the active one appends nothing to the transcript of the   *)
(* active session.                                                     *)
C28_ReplyToIssuingSession ==
    [][ \A i \in 1..Len(sends) :
          (Returns(i) /\ sends[i].session # session) =>
              chatHistory' = chatHistory ]_vars

(* C29: in every reachable state isLoading is true exactly when a call *)
(* of sendMessage is in flight, and isRetrying is true only while      *)
(* isLoading is true.                                                  *)
C29_IndicatorsMatchFlight ==
    /\ isLoading <=> \E i \in 1..Len(sends) : InFlight(i)
    /\ isRetrying => isLoading

(* C26: an attempt, the first or a later one, answered 2xx with a body    *)
(* that parses but holds no assistant message ends the call in that step: *)
(* the transcript is unchanged and holds no assistant message, the error  *)
(* is the no-response message, isLoading and isRetrying are false, and    *)
(* the call never acts again.                                             *)
C26_NoMessageEndsSend ==
    [][ \A i \in 1..Len(sends) :
          /\ ( /\ Acts(i)
               /\ sends[i].pc = "Attempting"
               /\ \/ endpoint = "200_no_message"
                  \/ /\ endpoint \in { "429_then_200_no_message",
                                       "rejected_then_200_no_message" }
                     /\ sends[i].attempts > 1 ) =>
                /\ sends'[i] = Returned
                /\ sends[i].attempts =
                       IF endpoint = "200_no_message" THEN 1 ELSE 2
                /\ error' = <<"No response from assistant.">>
                /\ chatHistory' = chatHistory
                /\ "assistant" \notin Roles(chatHistory')
                /\ isLoading' = FALSE
                /\ isRetrying' = FALSE
          /\ (sends[i].pc = "Done" => sends'[i].pc = "Done") ]_vars

C26_Witness ==
    /\ endpoint = "429_then_200_no_message"
    /\ Len(sends) = 1
    /\ sends[1] = Returned
    /\ error = ErrNoResponse
    /\ chatHistory = << ChatMessage("user", <<"q">>) >>
    /\ ~isLoading

(* C27: a change of isOnline changes nothing of a call in flight, and a   *)
(* call in flight takes its steps while isOnline is false as the loop     *)
(* prescribes: the backoff timer leads to the next attempt with the       *)
(* counter one higher, and an attempt that fails retryably is retried     *)
(* with the wait of its counter, or ends the call when the counter is 5.  *)
C27_ConnectivityReadOnce ==
    [][ /\ isOnline' # isOnline =>
              /\ sends' = sends
              /\ isLoading' = isLoading
              /\ isRetrying' = isRetrying
              /\ error' = error
              /\ chatHistory' = chatHistory
        /\ \A i \in 1..Len(sends) :
              (Acts(i) /\ ~isOnline) =>
                  /\ isOnline' = isOnline
                  /\ error' = ErrOffline => error = ErrOffline
                  /\ sends[i].pc = "RetryWait" =>
                        /\ sends'[i].pc = "Attempting"
                        /\ sends'[i].currentTry = sends[i].currentTry + 1
                        /\ sends'[i].attempts = sends[i].attempts + 1
                  /\ FailsRetryably(i) =>
                        IF sends[i].currentTry < MAX_RETRIES
                        THEN /\ sends'[i].pc = "RetryWait"
                             /\ sends'[i].currentTry = sends[i].currentTry
                             /\ sends'[i].delay =
                                    BackoffSchedule[sends[i].currentTry + 1]
                        ELSE sends'[i].pc = "Done" ]_vars

C27_Witness ==
    /\ ~isOnline
    /\ Len(sends) = 1
    /\ sends[1].pc = "Attempting"
    /\ sends[1].currentTry = 1
    /\ error = ErrOffline
    /\ errorTimers = 1
    /\ isLoading

(* C30: with an endpoint that answers every attempt 2xx with a body that  *)
(* cannot be parsed, each of the first five attempts of a call ends in    *)
(* the backoff wait of the shared counter with a network error shown, and *)
(* the 6th ends the call with the max-retries network error; no attempt   *)
(* changes the transcript or the stored conversations or sets the         *)
(* no-response error of the success path.                                 *)
C30_UnparseableIsTransport ==
    [][ \A i \in 1..Len(sends) :
          endpoint = "200_unparseable" =>
            /\ (Acts(i) /\ sends[i].pc = "Attempting") =>
                  /\ chatHistory' = chatHistory
                  /\ savedChats' = savedChats
                  /\ error'[1] = "Network error: "
                  /\ error' # ErrNoResponse
                  /\ IF sends[i].attempts < 6
                     THEN /\ sends'[i].pc = "RetryWait"
                          /\ sends'[i].currentTry = sends[i].attempts - 1
                          /\ sends'[i].delay = BackoffSchedule[sends[i].attempts]
                          /\ isRetrying' = TRUE
                          /\ isLoading' = isLoading
                     ELSE /\ sends'[i] = Returned
                          /\ error' = << "Network error: ",
                                         "Unexpected end of JSON input",
                                         ". Max retries reached." >>
                          /\ isLoading' = FALSE
                          /\ isRetrying' = FALSE
            /\ Returns(i) =>
                  /\ sends[i].attempts = 6
                  /\ sends[i].waits = << 1000, 2000, 4000, 8000, 16000 >>
      ]_vars

C30_Witness ==
    /\ endpoint = "200_unparseable"
    /\ Len(sends) = 1
    /\ sends[1] = Returned
    /\ error = ErrNetwork("Unexpected end of JSON input")
    /\ ~isLoading
    /\ ~isRetrying
    /\ savedChats = << >>

(* C31: a call of sendMessage that a precondition rejects leaves the sent *)
(* flag false and the draft, the loading indicator, the documents, the    *)
(* stored conversations and the session unchanged; and in every state in  *)
(* which the sent flag is false and the four preconditions hold, a call   *)
(* of sendMessage starts a network attempt.                               *)
C31_RejectionLeavesSendPossible ==
    /\ [] ( ( /\ ~hasSentMessage
              /\ ~PreconditionFails
              /\ Len(sends) < MaxSendsFull ) =>
            ENABLED ( /\ sendMessage
                      /\ Len(sends') = Len(sends) + 1
                      /\ sends'[Len(sends')].pc = "Attempting"
                      /\ sends'[Len(sends')].session = session ) )
    /\ [][ (sendMessage /\ ~hasSentMessage /\ PreconditionFails) =>
              /\ hasSentMessage' = FALSE
              /\ message' = message
              /\ isLoading' = isLoading
              /\ documents' = documents
              /\ savedChats' = savedChats
              /\ session' = session
              /\ sends' = sends ]_vars

C31_Witness ==
    /\ session = 1
    /\ errorTimers = 1
    /\ Len(sends) = 1
    /\ sends[1].pc = "Attempting"
    /\ sends[1].attempts = 1
    /\ sends[1].session = 1
    /\ hasSentMessage
    /\ isLoading
    /\ error = null

(* C32: the counter of a call never exceeds MAX_RETRIES and a call waits  *)
(* for a retry only with the counter below it; every step that a call     *)
(* takes with the counter at MAX_RETRIES returns from the call; the error *)
(* of the exit after the loop is never shown.                             *)
C32_LoopNeverExitsByCondition ==
    /\ [] ( /\ \A i \in 1..Len(sends) :
                 /\ sends[i].currentTry <= MAX_RETRIES
                 /\ sends[i].pc = "RetryWait" =>
                        sends[i].currentTry < MAX_RETRIES
            /\ error # ErrLoopExit )
    /\ [][ \A i \in 1..Len(sends) :
             (Acts(i) /\ sends[i].currentTry = MAX_RETRIES) =>
                 /\ sends[i].pc = "Attempting"
                 /\ sends'[i] = Returned
                 /\ isLoading' = FALSE
                 /\ isRetrying' = FALSE
                 /\ error' # ErrLoopExit ]_vars

C32_Witness ==
    /\ endpoint = "transport_then_status"
    /\ Len(sends) = 1
    /\ sends[1] = Returned
    /\ error = ErrApi(429, "message", MAX_RETRIES)
    /\ ~isLoading
    /\ ~isRetrying

====
